---- MODULE Spec2Model ----
(***************************************************************************)
(* A model of molecule's Ansible provisioner                               *)
(* (src/molecule/provisioner/ansible.py): the inventory tree built from    *)
(* the platform list, the merged config_options / options mappings, the    *)
(* host_vars / group_vars files and the playbook invocations.              *)
(*                                                                         *)
(* Python dicts are functions with a finite domain of keys.  Where the     *)
(* iteration order of a dict decides the result (host_vars), the dict is a *)
(* sequence of <<key, value>> pairs with distinct keys.  Strings that the  *)
(* code concatenates are sequences of tokens: "web-default" is             *)
(* <<"web", "default">>.  Paths are sequences of path components.          *)
(***************************************************************************)
EXTENDS Integers, Sequences, FiniteSets, TLC

VARIABLES
    config,   \* self._config: the configuration snapshot the provisioner reads
    fs,       \* the filesystem: [dirs |-> set of paths, files |-> path -> content]
    calls,    \* how many times each operation has been called
    last,     \* the most recent call: its name, inputs, side effects and result
    exited    \* TRUE once util.sysexit_with_message has terminated the process

vars == <<config, fs, calls, last, exited>>

(***************************************************************************)
(* Bounds of the model.                                                    *)
(***************************************************************************)
MaxPlatforms == 2   \* platform records in the platform list
MaxCalls == 2       \* calls of one operation in one run
MaxVars == 2        \* entries of the host_vars / group_vars mappings

(***************************************************************************)
(* Dict helpers.                                                           *)
(***************************************************************************)
EmptyDict == <<>>

Put(d, k, v) == [x \in (DOMAIN d) \cup {k} |-> IF x = k THEN v ELSE d[x]]

Pop(d, k) == [x \in (DOMAIN d) \ {k} |-> d[x]]

Get(d, k, default) == IF k \in DOMAIN d THEN d[k] ELSE default

Range(s) == {s[i] : i \in DOMAIN s}

SeqsUpTo(S, n) == UNION {[1..m -> S] : m \in 0..n}

\* collections.defaultdict(self._vivify): reading a missing key yields a new
\* empty tree, and an assignment through a chain of subscripts creates every
\* level of the chain.
Vivify == EmptyDict

RECURSIVE SetPath(_, _, _)
SetPath(dd, path, v) ==
    IF Len(path) = 1
    THEN Put(dd, path[1], v)
    ELSE Put(dd, path[1], SetPath(Get(dd, path[1], Vivify), Tail(path), v))

(***************************************************************************)
(* Collaborators of the provisioner (the Config, Scenario and Driver       *)
(* objects).                                                               *)
(***************************************************************************)
EphemeralDirectory == <<"ephemeral">>
MoleculeFile == <<"scenario", "molecule.yml">>
ScenarioDirectory == <<"scenario">>
InstanceConfig == <<"ephemeral", "instance_config.yml">>

ConnectionOptions(instance_name) ==
    [ansible_connection |-> "docker", instance |-> instance_name]

\* os.path.join(directory, name)
PathJoin(directory, name) == Append(directory, name)

\* util.safe_dump: the YAML text of a value
SafeDump(value) == <<"yaml", value>>

\* m9dicts.convert_to: the plain dict with the content of a dict-like object
ConvertTo(dd) == dd

\* util.write_file(path, content)
WriteFile(f, path, content) == [f EXCEPT !.files = Put(@, path, content)]

(***************************************************************************)
(* Ansible.inventory_file, Ansible.inventory                               *)
(***************************************************************************)
inventory_file == PathJoin(EphemeralDirectory, "ansible_inventory.yml")

UngroupedVars ==
    [molecule_file |-> MoleculeFile,
     molecule_inventory_file |-> inventory_file,
     molecule_scenario_directory |-> ScenarioDirectory,
     molecule_instance_config |-> InstanceConfig]

\* the inner loop: for child_group in platform.get('children', [])
RECURSIVE AddChildren(_, _, _, _, _)
AddChildren(dd, group, children, instance_name, connection_options) ==
    IF children = <<>>
    THEN dd
    ELSE AddChildren(
            SetPath(dd, <<group, "children", Head(children), "hosts", instance_name>>,
                    connection_options),
            group, Tail(children), instance_name, connection_options)

\* AddGroup with the child groups filed under the implicit group
AddGroupUnderUngrouped(dd, platform, group) ==
    LET instance_name == platform["name"]
        connection_options == ConnectionOptions(instance_name)
        d1 == SetPath(dd, <<group, "hosts", instance_name>>, connection_options)
        d2 == SetPath(d1, <<"ungrouped", "vars">>, UngroupedVars)
    IN  AddChildren(d2, "ungrouped", Get(platform, "children", <<>>),
                    instance_name, connection_options)

\* AddGroup with the child groups' hosts given other connection options
AddGroupChildOptions(dd, platform, group) ==
    LET instance_name == platform["name"]
        connection_options == ConnectionOptions(instance_name)
        d1 == SetPath(dd, <<group, "hosts", instance_name>>, connection_options)
        d2 == SetPath(d1, <<"ungrouped", "vars">>, UngroupedVars)
    IN  AddChildren(d2, group, Get(platform, "children", <<>>),
                    instance_name, ConnectionOptions("localhost"))

\* one iteration of: for group in platform.get('groups', ['ungrouped'])
AddGroup(dd, platform, group) ==
    LET instance_name == platform["name"]
        connection_options == ConnectionOptions(instance_name)
        d1 == SetPath(dd, <<group, "hosts", instance_name>>, connection_options)
        d2 == SetPath(d1, <<"ungrouped", "vars">>, UngroupedVars)
    IN  AddChildren(d2, group, Get(platform, "children", <<>>),
                    instance_name, connection_options)

RECURSIVE AddGroups(_, _, _)
AddGroups(dd, platform, groups) ==
    IF groups = <<>>
    THEN dd
    ELSE AddGroups(AddGroup(dd, platform, Head(groups)), platform, Tail(groups))

PlatformGroups(platform) == Get(platform, "groups", <<"ungrouped">>)

RECURSIVE AddPlatforms(_, _)
AddPlatforms(dd, platforms) ==
    IF platforms = <<>>
    THEN dd
    ELSE AddPlatforms(AddGroups(dd, Head(platforms), PlatformGroups(Head(platforms))),
                      Tail(platforms))

inventory == AddPlatforms(Vivify, config.platforms)

\* dd[group]['hosts'] and dd[group]['children'][child_group]['hosts'], read
\* without creating them
Hosts(dd, group) == Get(Get(dd, group, EmptyDict), "hosts", EmptyDict)

ChildGroups(dd, group) == Get(Get(dd, group, EmptyDict), "children", EmptyDict)

ChildHosts(dd, group, child_group) ==
    Get(Get(ChildGroups(dd, group), child_group, EmptyDict), "hosts", EmptyDict)

(***************************************************************************)
(* Ansible._verify_inventory, Ansible.write_inventory                      *)
(***************************************************************************)
\* _verify_inventory that lets every inventory pass
VerifyInventoryNever == FALSE

\* TRUE when _verify_inventory ends the process: `if not self.inventory`
VerifyInventoryExits == inventory = EmptyDict

Bump(op) == [calls EXCEPT ![op] = @ + 1]

Inventory ==
    /\ ~exited
    /\ last' = [op |-> "inventory", result |-> inventory]
    /\ UNCHANGED <<config, fs, calls, exited>>

WriteInventory ==
    /\ ~exited
    /\ IF VerifyInventoryExits
       THEN /\ exited' = TRUE
            /\ last' = [op |-> "write_inventory", fatal |-> TRUE, writes |-> <<>>]
            /\ fs' = fs
       ELSE /\ exited' = exited
            /\ last' = [op |-> "write_inventory", fatal |-> FALSE,
                        writes |-> <<inventory_file>>]
            /\ fs' = WriteFile(fs, inventory_file, SafeDump(ConvertTo(inventory)))
    /\ UNCHANGED <<config, calls>>

(***************************************************************************)
(* Ansible.host_vars, Ansible.group_vars, Ansible.add_or_update_vars       *)
(***************************************************************************)
\* util.instance_with_scenario_name: '<instance>-<scenario>'
InstanceWithScenarioName(instance_name, scenario_name) ==
    instance_name \o scenario_name

host_vars == config.host_vars

group_vars == config.group_vars

\* the dict with the items of an ordered mapping
AsDict(items) ==
    [k \in {items[i][1] : i \in DOMAIN items} |->
        (CHOOSE it \in Range(items) : it[1] = k)[2]]

\* for instance_name, _ in self.host_vars.items():
\*     vars_target[<suffixed name>] = vars_target.pop(instance_name)
RECURSIVE AppendScenarioName(_, _, _)
AppendScenarioName(vars_target, items, scenario_name) ==
    IF items = <<>>
    THEN vars_target
    ELSE LET instance_name == Head(items)[1]
             instance_with_scenario_name ==
                 InstanceWithScenarioName(instance_name, scenario_name)
         IN  AppendScenarioName(
                 Put(Pop(vars_target, instance_name), instance_with_scenario_name,
                     vars_target[instance_name]),
                 Tail(items), scenario_name)

VarsTarget(target) ==
    IF target = "host_vars"
    THEN AppendScenarioName(AsDict(host_vars), host_vars, config.scenario_name)
    ELSE AsDict(group_vars)

TargetVarsDirectory(target) == PathJoin(EphemeralDirectory, target)

\* the files the final loop writes: path -> content
VarsFiles(target, vars_target) ==
    [path \in {PathJoin(TargetVarsDirectory(target), k) : k \in DOMAIN vars_target} |->
        SafeDump(vars_target[path[Len(path)]])]

\* the directory is made and the files are written even for an empty mapping
VarsEffectNoReturn(f, target, vars_target) ==
    LET written == VarsFiles(target, vars_target)
    IN  [dirs |-> f.dirs \cup {TargetVarsDirectory(target)},
         files |-> [path \in (DOMAIN f.files) \cup (DOMAIN written) |->
                       IF path \in DOMAIN written THEN written[path] ELSE f.files[path]]]

\* the filesystem after `if not vars_target: return`, the mkdir of a missing
\* directory and the write of one file per key
VarsEffect(f, target, vars_target) ==
    IF DOMAIN vars_target = {}
    THEN f
    ELSE LET written == VarsFiles(target, vars_target)
         IN  [dirs |-> f.dirs \cup {TargetVarsDirectory(target)},
              files |-> [path \in (DOMAIN f.files) \cup (DOMAIN written) |->
                            IF path \in DOMAIN written THEN written[path]
                            ELSE f.files[path]]]

\* the call as the caller sees it: whether a directory was made, and the
\* files written
VarsCall(target, before, after) ==
    [op |-> "add_or_update_vars", target |-> target,
     mkdir |-> after.dirs # before.dirs,
     writes |-> IF DOMAIN VarsTarget(target) = {} THEN EmptyDict
                ELSE VarsFiles(target, VarsTarget(target))]

AddOrUpdateHostVars ==
    /\ ~exited
    /\ calls["host_vars"] < MaxCalls
    /\ calls' = Bump("host_vars")
    /\ fs' = VarsEffect(fs, "host_vars", VarsTarget("host_vars"))
    /\ last' = VarsCall("host_vars", fs, fs')
    /\ UNCHANGED <<config, exited>>

AddOrUpdateGroupVars ==
    /\ ~exited
    /\ calls["group_vars"] < MaxCalls
    /\ calls' = Bump("group_vars")
    /\ fs' = VarsEffect(fs, "group_vars", VarsTarget("group_vars"))
    /\ last' = VarsCall("group_vars", fs, fs')
    /\ UNCHANGED <<config, exited>>

(***************************************************************************)
(* Ansible.default_config_options, default_options, config_options,        *)
(* options.  A value of a mapping is a leaf, [leaf |-> v], or a nested     *)
(* mapping, [map |-> m].                                                   *)
(***************************************************************************)
Leaf(v) == [leaf |-> v]

Map(m) == [map |-> m]

IsMap(value) == "map" \in DOMAIN value

\* Config.merge_dicts(a, b): b merged into a copy of a, key by key where both
\* values are mappings, b's value winning elsewhere
RECURSIVE MergeDicts(_, _)
MergeDicts(a, b) ==
    [k \in (DOMAIN a) \cup (DOMAIN b) |->
        IF k \notin DOMAIN b THEN a[k]
        ELSE IF k \notin DOMAIN a THEN b[k]
        ELSE IF IsMap(a[k]) /\ IsMap(b[k]) THEN Map(MergeDicts(a[k].map, b[k].map))
        ELSE b[k]]

default_config_options ==
    [defaults |-> Map(
        [ansible_managed |-> Leaf("Ansible managed: Do NOT edit this file manually!"),
         retry_files_enabled |-> Leaf("False"),
         roles_path |-> Leaf("../../../../:$ANSIBLE_ROLES_PATH"),
         library |-> Leaf("plugins/libraries:$ANSIBLE_LIBRARY"),
         filter_plugins |-> Leaf("plugins/filters:$ANSIBLE_FILTER_PLUGINS")])]

default_options == IF config.debug THEN [debug |-> Leaf("True")] ELSE EmptyDict

\* config_options with the arguments of the merge exchanged
ConfigOptionsDefaultsWin ==
    MergeDicts(config.config_options, default_config_options)

config_options == MergeDicts(default_config_options, config.config_options)

options == MergeDicts(default_options, config.options)

ConfigOptions ==
    /\ ~exited
    /\ last' = [op |-> "config_options", defaults |-> default_config_options,
                result |-> config_options]
    /\ UNCHANGED <<config, fs, calls, exited>>

Options ==
    /\ ~exited
    /\ last' = [op |-> "options", defaults |-> default_options, result |-> options]
    /\ UNCHANGED <<config, fs, calls, exited>>

(***************************************************************************)
(* Ansible._get_ansible_playbook, converge, syntax, check                  *)
(***************************************************************************)
\* ansible_playbook.AnsiblePlaybook(inventory, playbook, config, **kwargs)
AnsiblePlaybook(inventory_path, playbook, kwargs) ==
    [inventory |-> inventory_path, playbook |-> playbook, kwargs |-> kwargs,
     cli |-> EmptyDict]

\* AnsiblePlaybook.add_cli_arg(name, value)
AddCliArg(pb, name, value) == [pb EXCEPT !.cli = Put(@, name, value)]

\* what AnsiblePlaybook.execute() can do: return the output or fail
ExecuteOutcomes ==
    {[returned |-> "stdout"], [raised |-> "non-zero exit"], [raised |-> "tool error"]}

GetAnsiblePlaybook(playbook, kwargs) ==
    AnsiblePlaybook(inventory_file, playbook, kwargs)

ConvergePlaybook(playbook, kwargs) == GetAnsiblePlaybook(playbook, kwargs)

\* syntax without the add_cli_arg call
SyntaxPlaybookNoFlag(playbook) == GetAnsiblePlaybook(playbook, EmptyDict)

SyntaxPlaybook(playbook) ==
    AddCliArg(GetAnsiblePlaybook(playbook, EmptyDict), "syntax-check", TRUE)

CheckPlaybook(playbook) ==
    AddCliArg(GetAnsiblePlaybook(playbook, EmptyDict), "check", TRUE)

\* the result the caller sees: converge returns what execute returns, syntax
\* and check return None; what execute raises reaches the caller
CallResult(op, outcome) ==
    IF "raised" \in DOMAIN outcome THEN outcome
    ELSE IF op = "converge" THEN outcome
    ELSE [returned |-> "None"]

\* what a call leaves behind: the objects it executed and its result
Invocation(op, playbook, pb, outcome) ==
    [op |-> op, playbook |-> playbook, executed |-> <<pb>>,
     outcome |-> outcome, result |-> CallResult(op, outcome)]

Playbooks == {<<"scenario", "playbook.yml">>, <<"scenario", "create.yml">>}

KwargsSets == {EmptyDict, [out |-> "callback"]}

Converge ==
    \E playbook \in Playbooks, kwargs \in KwargsSets, outcome \in ExecuteOutcomes :
        /\ ~exited
        /\ calls["converge"] < MaxCalls
        /\ calls' = Bump("converge")
        /\ last' = Invocation("converge", playbook, ConvergePlaybook(playbook, kwargs), outcome)
        /\ UNCHANGED <<config, fs, exited>>

Syntax ==
    \E playbook \in Playbooks, outcome \in ExecuteOutcomes :
        /\ ~exited
        /\ calls["syntax"] < MaxCalls
        /\ calls' = Bump("syntax")
        /\ last' = Invocation("syntax", playbook, SyntaxPlaybook(playbook), outcome)
        /\ UNCHANGED <<config, fs, exited>>

Check ==
    \E playbook \in Playbooks, outcome \in ExecuteOutcomes :
        /\ ~exited
        /\ calls["check"] < MaxCalls
        /\ calls' = Bump("check")
        /\ last' = Invocation("check", playbook, CheckPlaybook(playbook), outcome)
        /\ UNCHANGED <<config, fs, exited>>

(***************************************************************************)
(* The configurations the runs start from.                                 *)
(***************************************************************************)
InstanceNames == {"instance-1", "instance-2"}
GroupNames == {"ungrouped", "web", "db"}
ChildNames == {"c1", "c2"}
GroupLists == {<<>>, <<"web">>, <<"web", "db">>, <<"web", "ungrouped">>}
ChildLists == {<<"c1">>, <<"c1", "c2">>}
ScenarioName == <<"default">>

PlatformRecords ==
    LET named == {[name |-> n] : n \in InstanceNames}
        grouped == named \cup
            {Put(p, "groups", g) : p \in named, g \in GroupLists}
    IN  grouped \cup
            {Put(p, "children", c) : p \in grouped, c \in ChildLists}

DefaultConfig ==
    [platforms |-> <<[name |-> "instance-1"]>>,
     scenario_name |-> ScenarioName,
     host_vars |-> <<>>,
     group_vars |-> <<>>,
     config_options |-> EmptyDict,
     options |-> EmptyDict,
     debug |-> FALSE]

EmptyFs == [dirs |-> {EphemeralDirectory}, files |-> EmptyDict]

NoCalls ==
    [op \in {"host_vars", "group_vars", "converge", "syntax", "check"}
        |-> 0]

InitInventory ==
    /\ \E platforms \in SeqsUpTo(PlatformRecords, MaxPlatforms) :
          config = [DefaultConfig EXCEPT !.platforms = platforms]
    /\ fs = EmptyFs
    /\ calls = NoCalls
    /\ last = [op |-> "none"]
    /\ exited = FALSE

NextInventory == Inventory \/ WriteInventory

SpecInventory == InitInventory /\ [][NextInventory]_vars

HostKeys == {<<"web">>, <<"web", "default">>, <<"db">>}
GroupKeys == {<<"web">>, <<"db">>}
VarValues == {[foo |-> "bar"], [foo |-> "baz"]}

\* the ordered mappings of at most MaxVars entries, their keys distinct
OrderedMappings(keys) ==
    {m \in SeqsUpTo(keys \X VarValues, MaxVars) :
        \A i, j \in DOMAIN m : m[i][1] = m[j][1] => i = j}

InitVars ==
    /\ \E hv \in OrderedMappings(HostKeys), gv \in OrderedMappings(GroupKeys) :
          config = [DefaultConfig EXCEPT !.host_vars = hv, !.group_vars = gv]
    /\ fs \in {EmptyFs,
               [EmptyFs EXCEPT !.dirs = @ \cup {TargetVarsDirectory("host_vars"),
                                                TargetVarsDirectory("group_vars")}]}
    /\ calls = NoCalls
    /\ last = [op |-> "none"]
    /\ exited = FALSE

NextVars == AddOrUpdateHostVars \/ AddOrUpdateGroupVars

SpecVars == InitVars /\ [][NextVars]_vars

Sections == {"defaults", "ssh_connection"}
SectionKeys == {"retry_files_enabled", "scp_if_ssh"}
OptionKeys == {"debug", "vvv"}

\* the mappings from some of the keys to the values
Mappings(keys, values) == UNION {[d -> values] : d \in SUBSET keys}

UserConfigOptions ==
    Mappings(Sections,
             {Leaf("text")} \cup {Map(m) : m \in Mappings(SectionKeys, {Leaf("True")})})

UserOptions == Mappings(OptionKeys, {Leaf("True"), Leaf("False")})

InitMerge ==
    /\ \E co \in UserConfigOptions, o \in UserOptions, debug \in BOOLEAN :
          config = [DefaultConfig EXCEPT !.config_options = co, !.options = o,
                                         !.debug = debug]
    /\ fs = EmptyFs
    /\ calls = NoCalls
    /\ last = [op |-> "none"]
    /\ exited = FALSE

NextMerge == ConfigOptions \/ Options

SpecMerge == InitMerge /\ [][NextMerge]_vars

InitRun ==
    /\ config = DefaultConfig
    /\ fs = EmptyFs
    /\ calls = NoCalls
    /\ last = [op |-> "none"]
    /\ exited = FALSE

NextRun == Converge \/ Syntax \/ Check

SpecRun == InitRun /\ [][NextRun]_vars

(***************************************************************************)
(* Properties of the inventory.                                            *)
(***************************************************************************)
Platforms == Range(config.platforms)

DeclaredGroups(platform) == Range(Get(platform, "groups", <<>>))

Groups(platform) == Range(PlatformGroups(platform))

Children(platform) == Range(Get(platform, "children", <<>>))

Built == last.op = "inventory"

\* C1: for every platform list with at least one record the inventory is
\* non-empty and every platform's instance name is a key of tree[g].hosts for
\* every group g of its groups (default ["ungrouped"]).
C1_NonEmptyAndUnderGroups ==
    (Built /\ config.platforms # <<>>) =>
        /\ last.result # EmptyDict
        /\ \A p \in Platforms : \A g \in Groups(p) :
              p["name"] \in DOMAIN Hosts(last.result, g)

\* C2: write_inventory on an empty inventory (an empty platform list) ends in
\* the fatal failure and writes nothing, and the inventory file is never
\* written once the process has exited; on a non-empty inventory there is no
\* fatal failure and exactly one write, of the inventory file.
C2_FatalOrOneWrite ==
    /\ (config.platforms = <<>> => inventory = EmptyDict)
    /\ (last.op = "write_inventory" =>
          IF inventory = EmptyDict
          THEN last.fatal /\ last.writes = <<>> /\ exited
          ELSE /\ ~last.fatal /\ ~exited
               /\ last.writes = <<inventory_file>>
               /\ inventory_file \in DOMAIN fs.files
               /\ fs.files[inventory_file] = SafeDump(inventory))
    /\ (exited => inventory_file \notin DOMAIN fs.files)

C2_Witness ==
    /\ last.op = "write_inventory"
    /\ config.platforms = <<>>
    /\ exited
    /\ last.fatal

\* C6 as first stated: every instance name is a host of some child group
\* under tree["ungrouped"].children, and a host of tree[g] for each group g
\* the platform explicitly declares.
C6_UnderUngroupedChildren ==
    Built =>
        \A p \in Platforms :
            /\ \E c \in DOMAIN ChildGroups(last.result, "ungrouped") :
                  p["name"] \in DOMAIN ChildHosts(last.result, "ungrouped", c)
            /\ \A g \in DeclaredGroups(p) : p["name"] \in DOMAIN Hosts(last.result, g)

\* C6 (amended): every instance name is a host of tree[g].children[c] for
\* every group g of its groups (default ["ungrouped"]) and every child group
\* c of its children list, and a host of tree[g] for each group g the
\* platform explicitly declares.
C6_UnderGroupsChildren ==
    Built =>
        \A p \in Platforms :
            /\ \A g \in Groups(p) : \A c \in Children(p) :
                  p["name"] \in DOMAIN ChildHosts(last.result, g, c)
            /\ \A g \in DeclaredGroups(p) : p["name"] \in DOMAIN Hosts(last.result, g)

C6_Witness ==
    /\ Built
    /\ \E p \in Platforms :
          /\ "web" \in DeclaredGroups(p)
          /\ "ungrouped" \notin DeclaredGroups(p)
          /\ "c1" \in Children(p)
          /\ p["name"] \in DOMAIN ChildHosts(last.result, "web", "c1")
          /\ p["name"] \notin DOMAIN ChildHosts(last.result, "ungrouped", "c1")

\* C7: the hosts of each group g are exactly the instances whose groups
\* contain g, and whenever the platform list is non-empty the ungrouped group
\* exists with the four-entry vars mapping, its hosts empty when no platform
\* declares or defaults to ungrouped.
C7_ExactHostsAndUngroupedVars ==
    Built =>
        /\ \A g \in GroupNames \cup DOMAIN last.result :
              DOMAIN Hosts(last.result, g) = {p["name"] : p \in {q \in Platforms : g \in Groups(q)}}
        /\ config.platforms # <<>> =>
              /\ "ungrouped" \in DOMAIN last.result
              /\ "vars" \in DOMAIN last.result["ungrouped"]
              /\ last.result["ungrouped"]["vars"] = UngroupedVars
              /\ DOMAIN last.result["ungrouped"]["vars"] =
                    {"molecule_file", "molecule_inventory_file",
                     "molecule_scenario_directory", "molecule_instance_config"}
              /\ ((\A p \in Platforms : "ungrouped" \notin Groups(p))
                    => Hosts(last.result, "ungrouped") = EmptyDict)

\* C8: for every platform, group g of its groups and child group c of its
\* children, tree[g].children[c].hosts[name] is the connection options of
\* tree[g].hosts[name]; nothing else is under any group's children, so a
\* platform without children adds no entry there.
C8_ChildHostsMirrorHosts ==
    Built =>
        /\ \A p \in Platforms : \A g \in Groups(p) : \A c \in Children(p) :
              /\ p["name"] \in DOMAIN ChildHosts(last.result, g, c)
              /\ p["name"] \in DOMAIN Hosts(last.result, g)
              /\ ChildHosts(last.result, g, c)[p["name"]] = Hosts(last.result, g)[p["name"]]
        /\ \A g \in DOMAIN last.result : \A c \in DOMAIN ChildGroups(last.result, g) :
              \A n \in DOMAIN ChildHosts(last.result, g, c) :
                  \E p \in Platforms :
                      p["name"] = n /\ g \in Groups(p) /\ c \in Children(p)

C8_Witness ==
    /\ Built
    /\ \E p, q \in Platforms :
          /\ "children" \notin DOMAIN q
          /\ p["name"] # q["name"]
          /\ "web" \in Groups(p) /\ "web" \in Groups(q)
          /\ "c2" \in Children(p)
          /\ DOMAIN ChildHosts(last.result, "web", "c2") = {p["name"]}
          /\ ChildHosts(last.result, "web", "c2")[p["name"]] = ConnectionOptions(p["name"])

(***************************************************************************)
(* Properties of the host_vars / group_vars files.                         *)
(***************************************************************************)
\* the files of the filesystem under a target's directory: path -> content
FilesUnder(f, target) ==
    [path \in {q \in DOMAIN f.files : SubSeq(q, 1, Len(q) - 1) = TargetVarsDirectory(target)}
        |-> f.files[path]]

FileName(path) == path[Len(path)]

Suffixed(instance_name) == instance_name \o config.scenario_name

WroteHostVars ==
    /\ last.op = "add_or_update_vars"
    /\ last.target = "host_vars"

\* C3: a call for host_vars writes exactly one file per key of host_vars,
\* named by the key with the scenario name appended, holding the key's value:
\* no instance is lost, duplicated or given another instance's value.
C3_OneFilePerHostKey ==
    WroteHostVars =>
        /\ Cardinality(DOMAIN last.writes) = Len(host_vars)
        /\ \A i \in DOMAIN host_vars :
              LET path == PathJoin(TargetVarsDirectory("host_vars"), Suffixed(host_vars[i][1]))
              IN  /\ path \in DOMAIN last.writes
                  /\ last.writes[path] = SafeDump(host_vars[i][2])
                  /\ path \in DOMAIN fs.files
                  /\ fs.files[path] = SafeDump(host_vars[i][2])

\* C4: after any number n >= 1 of calls for host_vars the files under
\* host_vars are those one call writes, and no file is a key's value under
\* the key's name with the scenario name appended twice.
C4_IdempotentNoDoubleSuffix ==
    calls["host_vars"] >= 1 =>
        /\ FilesUnder(fs, "host_vars") =
              FilesUnder(VarsEffect(EmptyFs, "host_vars", VarsTarget("host_vars")), "host_vars")
        /\ \A path \in DOMAIN FilesUnder(fs, "host_vars") : \A i \in DOMAIN host_vars :
              (/\ FileName(path) = Suffixed(Suffixed(host_vars[i][1]))
               /\ fs.files[path] = SafeDump(host_vars[i][2]))
              => \E j \in DOMAIN host_vars :
                    /\ FileName(path) = Suffixed(host_vars[j][1])
                    /\ fs.files[path] = SafeDump(host_vars[j][2])

\* C10: a call for host_vars or group_vars whose mapping is empty makes no
\* directory, writes no file and leaves the filesystem as it was; a call for
\* a non-empty group_vars writes one file per group, under the group's name
\* as it is, holding the group's value.
C10_NoOpWhenEmpty ==
    [][\A target \in {"host_vars", "group_vars"} :
          calls'[target] # calls[target] =>
              /\ config[target] = <<>> =>
                    /\ fs' = fs
                    /\ ~last'.mkdir
                    /\ last'.writes = EmptyDict
              /\ (target = "group_vars" /\ group_vars # <<>>) =>
                    /\ TargetVarsDirectory(target) \in fs'.dirs
                    /\ DOMAIN last'.writes =
                          {PathJoin(TargetVarsDirectory(target), group_vars[i][1]) :
                              i \in DOMAIN group_vars}
                    /\ \A i \in DOMAIN group_vars :
                          LET path == PathJoin(TargetVarsDirectory(target), group_vars[i][1])
                          IN  /\ last'.writes[path] = SafeDump(group_vars[i][2])
                              /\ fs'.files[path] = SafeDump(group_vars[i][2])
                    /\ FilesUnder(fs', "host_vars") = FilesUnder(fs, "host_vars")]_vars

C10_Witness ==
    /\ WroteHostVars
    /\ host_vars = <<>>
    /\ TargetVarsDirectory("host_vars") \notin fs.dirs
    /\ calls["group_vars"] >= 1
    /\ Len(group_vars) = 2
    /\ TargetVarsDirectory("group_vars") \in fs.dirs
    /\ PathJoin(TargetVarsDirectory("group_vars"), <<"web">>) \in DOMAIN fs.files

(***************************************************************************)
(* Properties of the merged mappings.                                      *)
(***************************************************************************)
\* result is the merge of defaults and user, stated key by key: a key of one
\* side only keeps its value; a key of both holds the user's value, unless
\* both values are mappings, and then the mapping merged the same way
IsDeepMerge(result, defaults, user) ==
    /\ DOMAIN result = (DOMAIN defaults) \cup (DOMAIN user)
    /\ \A k \in DOMAIN result :
          IF k \notin DOMAIN user THEN result[k] = defaults[k]
          ELSE IF k \notin DOMAIN defaults THEN result[k] = user[k]
          ELSE IF IsMap(defaults[k]) /\ IsMap(user[k])
               THEN /\ IsMap(result[k])
                    /\ DOMAIN result[k].map = (DOMAIN defaults[k].map) \cup (DOMAIN user[k].map)
                    /\ \A j \in DOMAIN result[k].map :
                          result[k].map[j] =
                              IF j \in DOMAIN user[k].map THEN user[k].map[j]
                              ELSE defaults[k].map[j]
               ELSE result[k] = user[k]

UserMapping(op) == IF op = "config_options" THEN config.config_options ELSE config.options

\* C5: config_options and options are the deep merge of the defaults with
\* the user's mapping: an empty user mapping gives the defaults, empty
\* defaults give the user's mapping, the user wins at a leaf, mappings merge
\* key-wise, and the access changes neither the defaults nor the
\* configuration.
C5_DeepMerge ==
    [][last'.op \in {"config_options", "options"} =>
          LET user == UserMapping(last'.op)
              defaults == IF last'.op = "config_options" THEN default_config_options
                          ELSE default_options
          IN  /\ IsDeepMerge(last'.result, defaults, user)
              /\ DOMAIN user = {} => last'.result = defaults
              /\ DOMAIN defaults = {} => last'.result = user
              /\ config' = config
              /\ last'.defaults = defaults
              /\ default_config_options' = default_config_options
              /\ default_options' = default_options]_vars

C5_Witness ==
    /\ last.op = "config_options"
    /\ "defaults" \in DOMAIN config.config_options
    /\ IsMap(config.config_options["defaults"])
    /\ DOMAIN config.config_options["defaults"].map = {"retry_files_enabled"}
    /\ last.result["defaults"].map["retry_files_enabled"] = Leaf("True")
    /\ last.result["defaults"].map["roles_path"] = Leaf("../../../../:$ANSIBLE_ROLES_PATH")
    /\ "ssh_connection" \in DOMAIN last.result

(***************************************************************************)
(* Properties of the playbook invocations.                                 *)
(***************************************************************************)
\* C9: each call of converge, syntax or check executes the playbook object
\* exactly once, built from the inventory file and the given playbook; syntax
\* has set syntax-check to True, check has set check to True, converge has
\* set no flag; a failure of the execution is the caller's result.
C9_OneExecution ==
    last.op \in {"converge", "syntax", "check"} =>
        /\ Len(last.executed) = 1
        /\ last.executed[1].inventory = PathJoin(EphemeralDirectory, "ansible_inventory.yml")
        /\ last.executed[1].playbook = last.playbook
        /\ DOMAIN last.executed[1].cli =
              IF last.op = "syntax" THEN {"syntax-check"}
              ELSE IF last.op = "check" THEN {"check"}
              ELSE {}
        /\ \A flag \in DOMAIN last.executed[1].cli : last.executed[1].cli[flag] = TRUE
        /\ "raised" \in DOMAIN last.outcome => last.result = last.outcome

C9_Witness ==
    /\ last.op = "syntax"
    /\ calls["converge"] >= 1
    /\ calls["check"] >= 1
    /\ "raised" \in DOMAIN last.result
    /\ Len(last.executed) = 1

====
